---------------------------- MODULE Spec2Model ----------------------------
(***************************************************************************)
(* Model of the outgoing-HTTP-request instrumentation of                   *)
(* node-openwhisk-newrelic (lib/http-client.js, here src/unnamed/part_000).*)
(*                                                                         *)
(* One HttpRequestMetrics context is followed from the call of the         *)
(* instrumented http.request() to the delivery of its metrics.  The        *)
(* handlers are translated from the source; Node's event emitters, timers  *)
(* and clock are the environment, which delivers an event to the context   *)
(* only while a listener for it is registered.  start() and stop() install *)
(* and remove the instrumentation, and a second context can be in flight   *)
(* next to the first.                                                      *)
(***************************************************************************)
EXTENDS Integers, Sequences, FiniteSets, TLC

(***************************************************************************)
(* Bounds of the model.                                                    *)
(***************************************************************************)
\* the clock ticks at most MaxTicks times, TickMs milliseconds each
MaxTicks == 2
TickMs == 500
\* request 'timeout' may be emitted repeatedly (one per idle period)
MaxTimeouts == 2
\* calls of the wrapped request.write()
MaxWrites == 1
\* response 'data' chunks
MaxChunks == 2
\* calls of start() between two calls of stop()
MaxStarts == 2

(***************************************************************************)
(* JavaScript values: a tag and, where there is one, the value.            *)
(* Strings that the code takes apart or concatenates are sequences of      *)
(* one-character strings; the others are opaque.                           *)
(***************************************************************************)
Undefined == [t |-> "undefined"]
NaN == [t |-> "NaN"]
Num(n) == [t |-> "number", v |-> n]
Str(s) == [t |-> "string", v |-> s]
Bool(b) == [t |-> "boolean", v |-> b]
Arr(s) == [t |-> "array", v |-> s]
Fn(f) == [t |-> "function", v |-> f]
Obj(o) == [t |-> "object", v |-> o]
Hr(p) == [t |-> "hrtime", v |-> p]
Timeout(h) == [t |-> "Timeout", v |-> h]

\* JavaScript truthiness (ToBoolean)
Truthy(x) ==
    CASE x.t = "undefined" -> FALSE
      [] x.t = "NaN" -> FALSE
      [] x.t = "number" -> x.v # 0
      [] x.t = "string" -> x.v # <<>>
      [] x.t = "boolean" -> x.v
      [] OTHER -> TRUE

\* a || b
Or(a, b) == IF Truthy(a) THEN a ELSE b

\* property read: an absent property reads as undefined
Get(o, k) == IF k \in DOMAIN o THEN o[k] ELSE Undefined

\* { ...a, ...b }: the properties of b win
Spread(a, b) == b @@ a

\* The form  CHOOSE r \in {F(v) : v \in {e}} : TRUE  used below is  const v = e; F(v):
\* e is evaluated once and bound to v.

NS_PER_SEC == 1000000000
MS_PER_NS == 1000000

\* calculate time delta between two process.hrtime() results in milliseconds
getDurationInMs(startTime, endTime) ==
    IF ~Truthy(startTime) \/ ~Truthy(endTime)
    THEN Undefined
    ELSE LET deltaSec == endTime.v[1] - startTime.v[1]
             deltaNanos == endTime.v[2] - startTime.v[2]
         IN  Num((deltaSec * NS_PER_SEC + deltaNanos) \div MS_PER_NS)


(***************************************************************************)
(* String primitives of the platform, on sequences of characters.          *)
(***************************************************************************)
DigitChars == <<"0", "1", "2", "3", "4", "5", "6", "7", "8", "9">>
IsDigit(c) == \E i \in 1..10 : DigitChars[i] = c
DigitVal(c) == (CHOOSE i \in 1..10 : DigitChars[i] = c) - 1

\* String.prototype.indexOf for one character, 1-based; 0 when absent
IndexOf(s, c) ==
    IF \E i \in 1..Len(s) : s[i] = c
    THEN CHOOSE i \in 1..Len(s) : s[i] = c /\ \A j \in 1..(i - 1) : s[j] # c
    ELSE 0

\* String.prototype.startsWith
StartsWith(s, p) == Len(s) >= Len(p) /\ SubSeq(s, 1, Len(p)) = p

\* the first position of s holding one of the characters cs; Len(s)+1 when none
FirstOf(s, cs) ==
    IF \E i \in 1..Len(s) : s[i] \in cs
    THEN CHOOSE i \in 1..Len(s) : s[i] \in cs /\ \A j \in 1..(i - 1) : s[j] \notin cs
    ELSE Len(s) + 1

RECURSIVE DigitsToNat(_)
\* the value of a non-empty sequence of decimal digits
DigitsToNat(s) ==
    IF s = <<>> THEN 0
    ELSE DigitsToNat(SubSeq(s, 1, Len(s) - 1)) * 10 + DigitVal(s[Len(s)])

RECURSIVE NatToDigits(_)
\* the decimal digits of a natural number
NatToDigits(n) ==
    IF n < 10 THEN <<DigitChars[n + 1]>>
    ELSE NatToDigits(n \div 10) \o <<DigitChars[(n % 10) + 1]>>

\* the longest prefix of s made of digits
DigitPrefix(s) ==
    LET k == IF \E i \in 1..Len(s) : ~IsDigit(s[i])
             THEN (CHOOSE i \in 1..Len(s) : ~IsDigit(s[i])
                                            /\ \A j \in 1..(i - 1) : IsDigit(s[j])) - 1
             ELSE Len(s)
    IN  SubSeq(s, 1, k)

\* JsToString of a value inside a template literal
JsToString(x) ==
    CASE x.t = "string" -> x.v
      [] x.t = "number" -> IF x.v < 0 THEN <<"-">> \o NatToDigits(-x.v)
                                      ELSE NatToDigits(x.v)
      [] x.t = "NaN" -> <<"N", "a", "N">>
      [] OTHER -> <<"u", "n", "d", "e", "f", "i", "n", "e", "d">>

\* parseInt(x, 10): an optional sign and the leading digits; NaN without a digit
parseInt(x) ==
    LET s == JsToString(x)
        neg == s # <<>> /\ s[1] = "-"
        body == IF s # <<>> /\ s[1] \in {"-", "+"} THEN Tail(s) ELSE s
        ds == DigitPrefix(body)
    IN  IF ds = <<>> THEN NaN
        ELSE Num(IF neg THEN -DigitsToNat(ds) ELSE DigitsToNat(ds))

\* isNaN(x): ToNumber(x) is NaN; undefined converts to NaN
isNaN(x) == x.t \in {"NaN", "undefined"}

(***************************************************************************)
(* new URL(string) of the platform (WHATWG URL), for the http and https    *)
(* schemes: scheme "://" [userinfo "@"] host [":" port] path ["?" query]   *)
(* ["#" fragment].  A default port is dropped, an empty path is "/", and   *)
(* an IPv6 host keeps its brackets.  ok is FALSE where new URL throws.     *)
(***************************************************************************)
HTTP == <<"h", "t", "t", "p", ":">>
HTTPS == <<"h", "t", "t", "p", "s", ":">>

DefaultPort(protocol) == IF protocol = HTTPS THEN 443 ELSE 80

InvalidURL == [ok |-> FALSE]

ParseURL(s) ==
    LET c == IndexOf(s, ":")
        protocol == SubSeq(s, 1, c)
        afterScheme == SubSeq(s, c + 1, Len(s))
    IN  IF c = 0 \/ protocol \notin {HTTP, HTTPS} \/ ~StartsWith(afterScheme, <<"/", "/">>)
        THEN InvalidURL
        ELSE
        LET rest == SubSeq(afterScheme, 3, Len(afterScheme))
            k == FirstOf(rest, {"/", "?", "#"})
            authority == SubSeq(rest, 1, k - 1)
            tail == SubSeq(rest, k, Len(rest))
            at == IndexOf(authority, "@")
            userinfo == SubSeq(authority, 1, at - 1)
            hostport == SubSeq(authority, at + 1, Len(authority))
            uc == IndexOf(userinfo, ":")
            username == IF uc = 0 THEN userinfo ELSE SubSeq(userinfo, 1, uc - 1)
            password == IF uc = 0 THEN <<>> ELSE SubSeq(userinfo, uc + 1, Len(userinfo))
            bracket == StartsWith(hostport, <<"[">>)
            hostEnd == IF bracket THEN IndexOf(hostport, "]")
                       ELSE FirstOf(hostport, {":"}) - 1
            hostname == SubSeq(hostport, 1, hostEnd)
            afterHost == SubSeq(hostport, hostEnd + 1, Len(hostport))
            portChars == IF afterHost = <<>> THEN <<>> ELSE Tail(afterHost)
            portNum == DigitsToNat(portChars)
            port == IF portChars = <<>> \/ portNum = DefaultPort(protocol)
                    THEN <<>> ELSE NatToDigits(portNum)
            q == FirstOf(tail, {"?", "#"})
            h == FirstOf(tail, {"#"})
            rawPath == SubSeq(tail, 1, q - 1)
            pathname == IF rawPath = <<>> THEN <<"/">> ELSE rawPath
            rawSearch == SubSeq(tail, q, h - 1)
            search == IF rawSearch = <<"?">> THEN <<>> ELSE rawSearch
            rawHash == SubSeq(tail, h, Len(tail))
            hash == IF rawHash = <<"#">> THEN <<>> ELSE rawHash
        IN  IF \/ hostname = <<>>
               \/ (bracket /\ hostEnd = 0)
               \/ (afterHost # <<>> /\ afterHost[1] # ":")
               \/ \E i \in 1..Len(portChars) : ~IsDigit(portChars[i])
            THEN InvalidURL
            ELSE [ok |-> TRUE,
                  protocol |-> protocol,
                  username |-> username,
                  password |-> password,
                  hostname |-> hostname,
                  port |-> port,
                  pathname |-> pathname,
                  search |-> search,
                  hash |-> hash,
                  href |-> protocol \o <<"/", "/">>
                           \o (IF userinfo = <<>> THEN <<>> ELSE userinfo \o <<"@">>)
                           \o hostname
                           \o (IF port = <<>> THEN <<>> ELSE <<":">> \o port)
                           \o pathname \o search \o hash]

\* a URL instance as a JavaScript value
Url(u) == [t |-> "URL", v |-> u]

\* Number(url.port) of a port made of digits
Number(s) == Num(DigitsToNat(s))

\* taken from node's lib/internal/url.js
urlToOptions(url) ==
    LET options == [protocol |-> Str(url.protocol),
                    hostname |-> Str(IF StartsWith(url.hostname, <<"[">>)
                                     THEN SubSeq(url.hostname, 2, Len(url.hostname) - 1)
                                     ELSE url.hostname),
                    hash |-> Str(url.hash),
                    search |-> Str(url.search),
                    pathname |-> Str(url.pathname),
                    path |-> Str(url.pathname \o url.search),
                    href |-> Str(url.href)]
        withPort == IF url.port # <<>>
                    THEN [port |-> Number(url.port)] @@ options
                    ELSE options
    IN  Obj(IF url.username # <<>> \/ url.password # <<>>
            THEN [auth |-> Str(url.username \o <<":">> \o url.password)] @@ withPort
            ELSE withPort)

\* Object.assign(target, source): the own properties of source, copied into target
ObjectAssign(target, source) ==
    IF source.t = "object" THEN Obj(source.v @@ target.v) ELSE target

EmptyObject == Obj(<<>>)

\* http.request(options[, callback]) / http.request(url[, options][, callback]).
\* opts is the normalized record; target names the object Object.assign wrote to
\* ("input": the caller's own first argument; "fresh": an object made here).
httpOptions(input, options) ==
    LET fromUrl == input.t \in {"string", "URL"}
        options1 == IF fromUrl THEN options ELSE input
    IN  CHOOSE r \in
            {LET target == IF Truthy(input1) THEN input1 ELSE EmptyObject
                 ref == IF ~fromUrl /\ Truthy(input1) THEN "input" ELSE "fresh"
             IN  IF options1.t = "function"
                 THEN [opts |-> target, target |-> "none"]
                 ELSE [opts |-> ObjectAssign(target, options1), target |-> ref] :
             input1 \in {IF input.t = "string" THEN urlToOptions(ParseURL(input.v))
                         ELSE IF input.t = "URL" THEN urlToOptions(input.v)
                         ELSE input}} : TRUE


(***************************************************************************)
(* State.                                                                  *)
(***************************************************************************)
VARIABLES
    self,               \* the request context the other variables show: 1 or 2
    other,              \* the variables of the other request context
    httpRequest,        \* http.request and https.request: the function installed in each
    starts,             \* the callbacks start() was called with since the last stop()
    startsAtCall,       \* starts, as it was when the instrumented request() was called
    metricsCallback,    \* this.metricsCallback
    clock,              \* ticks of the monotonic clock behind process.hrtime()
    pc,                 \* "idle" before the instrumented request() is called, then "called"
    called,             \* the arguments the instrumented request() was called with
    requestFnCalls,     \* each call of the original request(): its arguments and result
    returned,           \* what the instrumented request() returned
    httpOpts,           \* this.httpOptions
    request,            \* this.request
    timings,            \* this.timings
    requestBodySize,    \* this.requestBodySize
    response,           \* this.response
    serverRequestId,    \* this.serverRequestId
    responseSize,       \* this.responseSize
    localAddress,       \* this.localAddress
    remoteAddress,      \* this.remoteAddress
    noResponseEndTimer, \* this.noResponseEndTimer
    metricsTriggered,   \* this.metricsTriggered
    listeners,          \* the listeners the context has registered and not used up
    writeWrapped,       \* request.write is wrapped by trackRequestBody
    pendingTimers,      \* the timers started by setTimeout, by either context, that
                        \* have not fired and were not cleared
    fired,              \* the events the platform has emitted so far; "finish<connect"
                        \* is added when 'connect' is emitted after 'finish'
    nTimeouts,          \* request 'timeout' events emitted
    nWrites,            \* request.write() calls made by the caller
    nChunks,            \* response 'data' chunks emitted
    streamed,           \* total length of the response chunks emitted
    reports             \* the calls of a metrics callback by the context: the signal
                        \* behind each, the callback called, and its argument

ctxVars == <<httpOpts, request, timings, requestBodySize, response, serverRequestId,
             responseSize, localAddress, remoteAddress, noResponseEndTimer,
             metricsTriggered, listeners, writeWrapped, pendingTimers, reports>>
callVars == <<pc, called, requestFnCalls, returned, metricsCallback, startsAtCall>>
envVars == <<fired, nTimeouts, nWrites, nChunks, streamed>>
installVars == <<httpRequest, starts>>
pairVars == <<self, other>>
vars == <<clock, installVars, pairVars, callVars, ctxVars, envVars>>

\* process.hrtime(): [seconds, nanoseconds]
hrtime ==
    LET ms == clock * TickMs
    IN  Hr(<<ms \div 1000, (ms % 1000) * MS_PER_NS>>)

(***************************************************************************)
(* The platform and the caller: the values they hand to the code.          *)
(***************************************************************************)
\* sendQueue.USER_AGENT, the User-Agent of the metrics sink's own requests
USER_AGENT == Str(<<"sink-agent">>)

GET == Str(<<"GET">>)

\* the method of the request handle: 'GET' unless options.method is given
RequestMethod(opts) ==
    LET m == Get(opts.v, "method") IN IF Truthy(m) THEN m ELSE GET

\* String.prototype.toUpperCase, on the methods the model uses
toUpperCase(s) ==
    CASE s = Str(<<"get">>) -> GET
      [] s = Str(<<"post">>) -> Str(<<"POST">>)
      [] OTHER -> s

\* the original http/https request(): the handle it returns carries the headers
\* and method of the options it normalized (request.getHeader, request.method)
NodeRequest(input, options, callback) ==
    CHOOSE r \in
        {LET headers == Get(o.v, "headers")
         IN  [handle |-> "ClientRequest",
              userAgent |-> IF headers.t = "object" THEN Get(headers.v, "User-Agent")
                            ELSE Undefined,
              method |-> toUpperCase(RequestMethod(o))] :
         o \in {httpOptions(input, options).opts}} : TRUE

\* socket.localAddress / socket.remoteAddress once connected
SocketLocalAddress == Str(<<"10.0.0.2">>)
SocketRemoteAddress == Str(<<"192.0.2.7">>)

(***************************************************************************)
(* The metrics record.                                                     *)
(***************************************************************************)
\* host.split(".").slice(-2).join("."): the last two dot-separated labels
RECURSIVE LastLabels(_, _)
LastLabels(s, n) ==
    LET dots == {i \in 1..Len(s) : s[i] = "."}
    IN  IF Cardinality(dots) < n THEN s
        ELSE LET first == CHOOSE i \in dots : \A j \in dots : i <= j
             IN  LastLabels(SubSeq(s, first + 1, Len(s)), n)

getRequestMetrics(opts, req) ==
    LET o == opts.v
        href == Get(o, "href")
        protocol == Or(Get(o, "protocol"),
                       IF Truthy(href) /\ href.t = "string" /\ StartsWith(href.v, HTTPS)
                       THEN Str(HTTPS) ELSE Str(HTTP))
        host == Or(Or(Get(o, "hostname"), Get(o, "host")),
                   Str(<<"l", "o", "c", "a", "l", "h", "o", "s", "t">>))
        port0 == Or(Or(Get(o, "port"), Get(o, "defaultPort")),
                    IF ~Truthy(Get(o, "protocol")) \/ Get(o, "protocol") = Str(HTTP)
                    THEN Num(80) ELSE Num(443))
        port == IF port0.t = "string" THEN parseInt(port0) ELSE port0
        portForUrl == IF \/ (port = Num(80) /\ protocol = Str(HTTP))
                         \/ (port = Num(443) /\ protocol = Str(HTTPS))
                      THEN <<>> ELSE <<":">> \o JsToString(port)
        path == Or(Get(o, "path"), Str(<<"/">>))
    IN  [protocol |-> protocol,
         host |-> host,
         port |-> port,
         path |-> path,
         url |-> Str(JsToString(protocol) \o <<"/", "/">> \o JsToString(host)
                     \o portForUrl \o JsToString(path)),
         method |-> toUpperCase(Or(req.method, GET)),
         domain |-> Str(LastLabels(JsToString(host), 2))]

getResponseMetrics(res, local, remote) ==
    IF ~Truthy(res) THEN <<>>
    ELSE [responseCode |-> res.v.statusCode,
          responseStatus |-> res.v.statusMessage,
          contentType |-> Get(res.v.headers, "content-type"),
          localIPAddress |-> local,
          serverIPAddress |-> remote]

\* getTimingMetrics measuring the wait from sentRequestAt alone
getTimingMetricsWaitFromSent(t) ==
    [duration |-> getDurationInMs(t.startAt, Or(t.errorAt, t.endAt)),
     durationBlocked |-> getDurationInMs(t.startAt, t.socketAt),
     durationDNS |-> getDurationInMs(t.socketAt, t.dnsLookupAt),
     durationConnect |-> getDurationInMs(Or(t.dnsLookupAt, t.socketAt), t.tcpConnectionAt),
     durationSSL |-> getDurationInMs(t.tcpConnectionAt, t.tlsHandshakeAt),
     durationSend |-> getDurationInMs(Or(t.tlsHandshakeAt, t.tcpConnectionAt), t.sentRequestAt),
     durationWait |-> getDurationInMs(t.sentRequestAt, t.firstByteAt),
     durationReceive |-> getDurationInMs(t.firstByteAt, t.endAt)]

getTimingMetrics(t) ==
    [duration |-> getDurationInMs(t.startAt, Or(t.errorAt, t.endAt)),
     durationBlocked |-> getDurationInMs(t.startAt, t.socketAt),
     durationDNS |-> getDurationInMs(t.socketAt, t.dnsLookupAt),
     durationConnect |-> getDurationInMs(Or(t.dnsLookupAt, t.socketAt), t.tcpConnectionAt),
     durationSSL |-> getDurationInMs(t.tcpConnectionAt, t.tlsHandshakeAt),
     durationSend |-> getDurationInMs(Or(t.tlsHandshakeAt, t.tcpConnectionAt), t.sentRequestAt),
     durationWait |-> getDurationInMs(Or(Or(t.sentRequestAt, t.tlsHandshakeAt),
                                         t.tcpConnectionAt), t.firstByteAt),
     durationReceive |-> getDurationInMs(t.firstByteAt, t.endAt)]


(***************************************************************************)
(* Installation: start() and stop() replace and restore the request        *)
(* function of the http and https modules through fnwrap.                  *)
(***************************************************************************)
Modules == {"http", "https"}

\* the platform's own request function
OriginalRequest == Fn("request")

\* the function requestWithMetrics returns: it is called in place of the
\* original and keeps originalRequestFn and attributes in its closure
requestWithMetrics(originalRequestFn, attributes) ==
    [t |-> "function", v |-> "requestWithMetrics",
     requestFn |-> originalRequestFn,
     metricsCallback |-> Get(attributes, "metricsCallback")]

IsWrapped(fn) == "requestFn" \in DOMAIN fn

\* fnwrap.wrap(obj, name, factory, attributes): installs factory(original, obj,
\* attributes) unless a replacement is installed already
wrap(fn, attributes) ==
    IF IsWrapped(fn) THEN fn ELSE requestWithMetrics(fn, attributes)

\* fnwrap.unwrap(obj, name): restores the original, if a replacement is installed
unwrap(fn) == IF IsWrapped(fn) THEN fn.requestFn ELSE fn

\* a start() that installs its own callback over an earlier installation
startRebinding(cb) ==
    httpRequest' = [m \in Modules |->
                       requestWithMetrics(unwrap(httpRequest[m]), [metricsCallback |-> cb])]

\* start(metricsCallback)
start(cb) ==
    httpRequest' = [m \in Modules |-> wrap(httpRequest[m], [metricsCallback |-> cb])]

\* stop()
stop == httpRequest' = [m \in Modules |-> unwrap(httpRequest[m])]

\* withMetricsCallback(cb): cb || (() => {})
Noop == Fn("noop")
withMetricsCallback(cb) == Or(cb, Noop)

(***************************************************************************)
(* Handlers of HttpRequestMetrics.  Each is the effect of the method on    *)
(* the context; the actions further down add the platform's side.          *)
(***************************************************************************)
NoTimings ==
    [startAt |-> Undefined, socketAt |-> Undefined, dnsLookupAt |-> Undefined,
     tcpConnectionAt |-> Undefined, tlsHandshakeAt |-> Undefined,
     sentRequestAt |-> Undefined, firstByteAt |-> Undefined,
     endAt |-> Undefined, errorAt |-> Undefined]

\* constructor(): startAt is taken, every other slot is undefined
NewTimings == [NoTimings EXCEPT !.startAt = hrtime]

\* ignoreRequest that only looks at a header given as an array
ignoreRequestArrayOnly(req) ==
    LET ua0 == req.userAgent
    IN  Truthy(ua0) /\ ua0.t = "array" /\ Len(ua0.v) > 0 /\ ua0.v[1] = USER_AGENT

\* ignore our own metrics request to NewRelic
ignoreRequest(req) ==
    LET ua0 == req.userAgent
        ua == IF Truthy(ua0) /\ ua0.t = "array" /\ Len(ua0.v) > 0 THEN ua0.v[1] ELSE ua0
    IN  Truthy(ua0) /\ ua = USER_AGENT

\* the listeners onRequest registers on the request
RequestListeners == {"socket", "finish", "response", "error", "timeout"}

\* the listeners onSocket registers on the socket
SocketListeners == {"lookup", "connect", "secureConnect", "data"}

\* the metrics handed to the callback by triggerMetrics
Metrics(t, extraMetrics) ==
    Spread(Spread(Spread(getRequestMetrics(httpOpts, request),
                         getResponseMetrics(response, localAddress, remoteAddress)),
                  getTimingMetrics(t)),
           extraMetrics)

\* triggerMetrics clearing every timer that is pending, not only its own
triggerMetricsClearAll(by, timers, t, extraMetrics) ==
    /\ pendingTimers' = IF Truthy(noResponseEndTimer) THEN {} ELSE timers
    /\ IF ~metricsTriggered
       THEN /\ reports' = Append(reports, [by |-> by, to |-> metricsCallback,
                                           metrics |-> Metrics(t, extraMetrics)])
            /\ metricsTriggered' = TRUE
       ELSE UNCHANGED <<reports, metricsTriggered>>

\* triggerMetrics without the clearTimeout
triggerMetricsNoClear(by, timers, t, extraMetrics) ==
    /\ pendingTimers' = timers
    /\ IF ~metricsTriggered
       THEN /\ reports' = Append(reports, [by |-> by, to |-> metricsCallback,
                                           metrics |-> Metrics(t, extraMetrics)])
            /\ metricsTriggered' = TRUE
       ELSE UNCHANGED <<reports, metricsTriggered>>

\* triggerMetrics without the metricsTriggered test
triggerMetricsUnlatched(by, timers, t, extraMetrics) ==
    /\ pendingTimers' = IF Truthy(noResponseEndTimer)
                        THEN timers \ {noResponseEndTimer.v}
                        ELSE timers
    /\ reports' = Append(reports, [by |-> by, to |-> metricsCallback,
                                           metrics |-> Metrics(t, extraMetrics)])
    /\ metricsTriggered' = TRUE

\* triggerMetrics(extraMetrics), run with the timings t the caller has just
\* written and the timers then pending; by names the signal being handled
triggerMetrics(by, timers, t, extraMetrics) ==
    /\ pendingTimers' = IF Truthy(noResponseEndTimer)
                        THEN timers \ {noResponseEndTimer.v}
                        ELSE timers
    /\ IF ~metricsTriggered
       THEN /\ reports' = Append(reports, [by |-> by, to |-> metricsCallback,
                                           metrics |-> Metrics(t, extraMetrics)])
            /\ metricsTriggered' = TRUE
       ELSE UNCHANGED <<reports, metricsTriggered>>

onEnd(by, timers) ==
    /\ timings' = [timings EXCEPT !.endAt = hrtime]
    /\ triggerMetrics(by, timers, timings',
                      [requestBodySize |-> requestBodySize,
                       responseBodySize |-> responseSize,
                       serverRequestId |-> serverRequestId])
    /\ UNCHANGED <<httpOpts, request, requestBodySize, response, serverRequestId,
                   responseSize, localAddress, remoteAddress, noResponseEndTimer,
                   listeners, writeWrapped>>

onError(err) ==
    /\ timings' = [timings EXCEPT !.errorAt = hrtime]
    /\ triggerMetrics("error", pendingTimers, timings',
                      [error |-> Bool(TRUE),
                       errorMessage |-> err.message,
                       errorCode |-> err.code])
    /\ listeners' = listeners \ {"error"}
    /\ UNCHANGED <<httpOpts, request, requestBodySize, response, serverRequestId,
                   responseSize, localAddress, remoteAddress, noResponseEndTimer,
                   writeWrapped>>

\* onTimeout writing the end slot, as onEnd does
onTimeoutAsEnd ==
    /\ timings' = [timings EXCEPT !.endAt = hrtime]
    /\ triggerMetrics("timeout", pendingTimers, timings',
                      [error |-> Bool(TRUE),
                       errorMessage |-> Str(<<"Connection timed out">>),
                       errorCode |-> Num(110)])
    /\ UNCHANGED <<httpOpts, request, requestBodySize, response, serverRequestId,
                   responseSize, localAddress, remoteAddress, noResponseEndTimer,
                   listeners, writeWrapped>>

onTimeout ==
    /\ timings' = [timings EXCEPT !.errorAt = hrtime]
    /\ triggerMetrics("timeout", pendingTimers, timings',
                      [error |-> Bool(TRUE),
                       errorMessage |-> Str(<<"Connection timed out">>),
                       errorCode |-> Num(110)])
    /\ UNCHANGED <<httpOpts, request, requestBodySize, response, serverRequestId,
                   responseSize, localAddress, remoteAddress, noResponseEndTimer,
                   listeners, writeWrapped>>

\* the handle setTimeout returns in startNoResponseEndTimer: a new timer, whose
\* callback belongs to this context
NewTimer ==
    [owner |-> self,
     n |-> IF Truthy(noResponseEndTimer) THEN noResponseEndTimer.v.n + 1 ELSE 1]

\* a byte counter that never looks at the content-length header
SeedResponseSizeNoHeader(headers) == Undefined

\* the response byte counter onResponse starts from
SeedResponseSize(headers) ==
    LET size == Get(headers, "content-length")
    IN  IF size # Undefined THEN parseInt(size) ELSE size

\* onResponse without the call of startNoResponseEndTimer
onResponseNoTimer(res) ==
    LET headers == res.v.headers
        size == SeedResponseSize(headers)
    IN  /\ response' = res
        /\ serverRequestId' = Or(Get(headers, "x-request-id"),
                                 Get(headers, "x-correlation-id"))
        /\ responseSize' = IF isNaN(size) THEN Num(0) ELSE size
        /\ listeners' = listeners \cup {"end"}
                        \cup (IF isNaN(size) THEN {"responseData"} ELSE {})
        /\ UNCHANGED <<httpOpts, request, timings, requestBodySize, localAddress,
                       remoteAddress, metricsTriggered, writeWrapped, reports,
                       noResponseEndTimer, pendingTimers>>

onResponse(res) ==
    LET headers == res.v.headers
        size == SeedResponseSize(headers)
    IN  /\ response' = res
        /\ serverRequestId' = Or(Get(headers, "x-request-id"),
                                 Get(headers, "x-correlation-id"))
        /\ responseSize' = IF isNaN(size) THEN Num(0) ELSE size
        /\ listeners' = listeners \cup {"end"}
                        \cup (IF isNaN(size) THEN {"responseData"} ELSE {})
        \* startNoResponseEndTimer()
        /\ noResponseEndTimer' = Timeout(NewTimer)
        /\ pendingTimers' = pendingTimers \cup {NewTimer}
        /\ UNCHANGED <<httpOpts, request, timings, requestBodySize, localAddress,
                       remoteAddress, metricsTriggered, writeWrapped, reports>>

onSocket ==
    /\ timings' = [timings EXCEPT !.socketAt = hrtime]
    /\ listeners' = listeners \cup SocketListeners
    /\ UNCHANGED <<httpOpts, request, requestBodySize, response, serverRequestId,
                   responseSize, localAddress, remoteAddress, noResponseEndTimer,
                   metricsTriggered, writeWrapped, pendingTimers, reports>>

\* a handler that only writes timing slots
OnlyTimings(t) ==
    /\ timings' = t
    /\ UNCHANGED <<httpOpts, request, requestBodySize, response, serverRequestId,
                   responseSize, localAddress, remoteAddress, noResponseEndTimer,
                   metricsTriggered, listeners, writeWrapped, pendingTimers, reports>>

\* the 'connect' listener without the delete of sentRequestAt
ConnectTimingsKeepSent(t) == [t EXCEPT !.tcpConnectionAt = hrtime]

\* the socket 'connect' listener: the timings it leaves
ConnectTimings(t) == [t EXCEPT !.tcpConnectionAt = hrtime, !.sentRequestAt = Undefined]

onConnect ==
    /\ timings' = ConnectTimings(timings)
    /\ localAddress' = SocketLocalAddress
    /\ remoteAddress' = SocketRemoteAddress
    /\ UNCHANGED <<httpOpts, request, requestBodySize, response, serverRequestId,
                   responseSize, noResponseEndTimer, metricsTriggered, listeners,
                   writeWrapped, pendingTimers, reports>>

\* the once-listener for the socket's first 'data'
onFirstData ==
    /\ timings' = [timings EXCEPT !.firstByteAt = hrtime]
    /\ listeners' = listeners \ {"data"}
    /\ UNCHANGED <<httpOpts, request, requestBodySize, response, serverRequestId,
                   responseSize, localAddress, remoteAddress, noResponseEndTimer,
                   metricsTriggered, writeWrapped, pendingTimers, reports>>

\* the wrapper trackRequestBody puts around request.write()
onWrite(len) ==
    /\ requestBodySize' = IF len # 0 THEN Num(requestBodySize.v + len) ELSE requestBodySize
    /\ UNCHANGED <<httpOpts, request, timings, response, serverRequestId, responseSize,
                   localAddress, remoteAddress, noResponseEndTimer, metricsTriggered,
                   listeners, writeWrapped, pendingTimers, reports>>

\* the response 'data' listener registered when no size came with the headers
onResponseData(len) ==
    /\ responseSize' = Num(responseSize.v + len)
    /\ UNCHANGED <<httpOpts, request, timings, requestBodySize, response, serverRequestId,
                   localAddress, remoteAddress, noResponseEndTimer, metricsTriggered,
                   listeners, writeWrapped, pendingTimers, reports>>

\* an emitted event no listener of the context hears
Unheard == UNCHANGED ctxVars


(***************************************************************************)
(* Inputs: the calls of the instrumented request(), the responses and the  *)
(* errors the platform delivers.                                           *)
(***************************************************************************)
HostName == <<"a", ".", "i", "o">>
HostIPv6 == <<"[", ":", ":", "1", "]">>
PathQuery == <<"/", "p", "?", "q">>

UrlStrings ==
    {protocol \o <<"/", "/">> \o host \o port \o path :
        protocol \in {HTTP, HTTPS},
        host \in {HostName, HostIPv6},
        port \in {<<>>, <<":", "8", "0">>, <<":", "4", "4", "3">>, <<":", "8", "0", "8", "0">>},
        path \in {<<>>, PathQuery}}

Callback == Fn("callback")
Headers(ua) == Obj([headers |-> Obj("User-Agent" :> ua)])
OtherAgent == Str(<<"node-fetch">>)

\* the second argument that may follow a URL: nothing, the callback, or options
\* that carry headers
SecondArgs == {Undefined, Callback, Headers(USER_AGENT), Headers(OtherAgent)}

\* an options record as first argument
OptionRecords ==
    {Obj([protocol |-> Str(HTTP), hostname |-> Str(HostName), path |-> Str(PathQuery)]),
     Obj([protocol |-> Str(HTTPS), hostname |-> Str(HostName), port |-> Num(8080),
          path |-> Str(PathQuery), method |-> Str(<<"post">>)]),
     Obj([protocol |-> Str(HTTPS), host |-> Str(HostName), port |-> Str(<<"4", "4", "3">>)]),
     Obj([hostname |-> Str(HostName), path |-> Str(PathQuery),
          href |-> Str(HTTPS \o <<"/", "/">> \o HostName \o PathQuery)]),
     Obj([hostname |-> Str(HostName), port |-> Num(8080),
          headers |-> Obj("User-Agent" :> Arr(<<USER_AGENT>>))]),
     Obj([hostname |-> Str(HostName),
          headers |-> Obj("User-Agent" :> Arr(<<OtherAgent, USER_AGENT>>))]),
     Obj([host |-> Str(HostName), defaultPort |-> Num(443),
          headers |-> Obj("User-Agent" :> Arr(<<>>))])}

Call(input, options, callback) ==
    [input |-> input, options |-> options, callback |-> callback]

\* every call shape: URL string, URL object, options record
AllCalls ==
    {Call(Str(u), o, IF o = Callback THEN Undefined ELSE Callback) :
        u \in UrlStrings, o \in SecondArgs}
    \cup {Call(Url(ParseURL(u)), o, Undefined) : u \in UrlStrings, o \in {Undefined, Callback}}
    \cup {Call(r, cb, Undefined) : r \in OptionRecords, cb \in {Undefined, Callback}}

\* the calls followed under a ticking clock
TimedCalls ==
    {Call(Str(HTTPS \o <<"/", "/">> \o HostName \o PathQuery), Callback, Undefined),
     Call(Str(HTTP \o <<"/", "/">> \o HostName), Headers(USER_AGENT), Callback)}

Response(code, message, headers) ==
    Obj([statusCode |-> Num(code), statusMessage |-> Str(<<message>>), headers |-> headers])

ContentLength(s) == "content-length" :> Str(s)

AllResponses ==
    {Response(200, "OK", ContentLength(<<"3">>) @@ ("x-request-id" :> Str(<<"rid-1">>))),
     Response(200, "OK", ContentLength(<<"0">>)),
     Response(200, "OK", "x-correlation-id" :> Str(<<"cid-1">>)),
     Response(404, "Not Found", "content-type" :> Str(<<"text/plain">>)),
     Response(200, "OK", ContentLength(<<"a", "b">>)),
     Response(200, "OK", ContentLength(<<"-", "5">>)),
     Response(200, "OK", ContentLength(<<>>))}

TimedResponses ==
    {Response(200, "OK", ContentLength(<<"3">>) @@ ("x-request-id" :> Str(<<"rid-1">>)))}

Error(message, code) == [message |-> Str(<<message>>), code |-> Str(<<code>>)]

Errors ==
    {Error("connect ECONNREFUSED", "ECONNREFUSED"), Error("socket hang up", "ECONNRESET")}

\* the lengths of the chunks written and streamed
ChunkLengths == {0, 2}

(***************************************************************************)
(* Two request contexts.  The variables show one of them; the variables of *)
(* the other are kept in other until the event loop turns to it.  The      *)
(* clock, the timers of the platform and the installed request functions   *)
(* are the same for both.                                                  *)
(***************************************************************************)
\* a request that was not made yet
NoContext(id) ==
    [self |-> id, pc |-> "idle", called |-> Undefined, requestFnCalls |-> <<>>,
     returned |-> Undefined, metricsCallback |-> Undefined, startsAtCall |-> <<>>,
     httpOpts |-> Undefined, request |-> Undefined, timings |-> NoTimings,
     requestBodySize |-> Undefined, response |-> Undefined,
     serverRequestId |-> Undefined, responseSize |-> Undefined,
     localAddress |-> Undefined, remoteAddress |-> Undefined,
     noResponseEndTimer |-> Undefined, metricsTriggered |-> FALSE, listeners |-> {},
     writeWrapped |-> FALSE, reports |-> <<>>, fired |-> {}, nTimeouts |-> 0,
     nWrites |-> 0, nChunks |-> 0, streamed |-> 0]

\* the context the variables show
ThisContext ==
    [self |-> self, pc |-> pc, called |-> called, requestFnCalls |-> requestFnCalls,
     returned |-> returned, metricsCallback |-> metricsCallback,
     startsAtCall |-> startsAtCall, httpOpts |-> httpOpts, request |-> request,
     timings |-> timings, requestBodySize |-> requestBodySize, response |-> response,
     serverRequestId |-> serverRequestId, responseSize |-> responseSize,
     localAddress |-> localAddress, remoteAddress |-> remoteAddress,
     noResponseEndTimer |-> noResponseEndTimer, metricsTriggered |-> metricsTriggered,
     listeners |-> listeners, writeWrapped |-> writeWrapped, reports |-> reports,
     fired |-> fired, nTimeouts |-> nTimeouts, nWrites |-> nWrites, nChunks |-> nChunks,
     streamed |-> streamed]

\* the event loop turns to the other context
Switch ==
    /\ other' = ThisContext
    /\ self' = other.self
    /\ pc' = other.pc
    /\ called' = other.called
    /\ requestFnCalls' = other.requestFnCalls
    /\ returned' = other.returned
    /\ metricsCallback' = other.metricsCallback
    /\ startsAtCall' = other.startsAtCall
    /\ httpOpts' = other.httpOpts
    /\ request' = other.request
    /\ timings' = other.timings
    /\ requestBodySize' = other.requestBodySize
    /\ response' = other.response
    /\ serverRequestId' = other.serverRequestId
    /\ responseSize' = other.responseSize
    /\ localAddress' = other.localAddress
    /\ remoteAddress' = other.remoteAddress
    /\ noResponseEndTimer' = other.noResponseEndTimer
    /\ metricsTriggered' = other.metricsTriggered
    /\ listeners' = other.listeners
    /\ writeWrapped' = other.writeWrapped
    /\ reports' = other.reports
    /\ fired' = other.fired
    /\ nTimeouts' = other.nTimeouts
    /\ nWrites' = other.nWrites
    /\ nChunks' = other.nChunks
    /\ streamed' = other.streamed
    /\ UNCHANGED <<clock, installVars, pendingTimers>>

(***************************************************************************)
(* Actions.  The platform emits 'timeout' from the request's socket, and   *)
(* after request 'error' the socket is destroyed: it emits no further      *)
(* socket event and no response; a response already being read may still   *)
(* end.                                                                    *)
(***************************************************************************)
Init ==
    /\ self = 1
    /\ other = NoContext(2)
    /\ httpRequest = [m \in Modules |-> OriginalRequest]
    /\ starts = <<>>
    /\ startsAtCall = <<>>
    /\ metricsCallback = Undefined
    /\ clock = 0
    /\ pc = "idle"
    /\ called = Undefined
    /\ requestFnCalls = <<>>
    /\ returned = Undefined
    /\ httpOpts = Undefined
    /\ request = Undefined
    /\ timings = NoTimings
    /\ requestBodySize = Undefined
    /\ response = Undefined
    /\ serverRequestId = Undefined
    /\ responseSize = Undefined
    /\ localAddress = Undefined
    /\ remoteAddress = Undefined
    /\ noResponseEndTimer = Undefined
    /\ metricsTriggered = FALSE
    /\ listeners = {}
    /\ writeWrapped = FALSE
    /\ pendingTimers = {}
    /\ fired = {}
    /\ nTimeouts = 0
    /\ nWrites = 0
    /\ nChunks = 0
    /\ streamed = 0
    /\ reports = <<>>

\* process.hrtime() is monotonic: time passes between events
Tick ==
    /\ clock < MaxTicks
    /\ clock' = clock + 1
    /\ UNCHANGED <<installVars, pairVars, callVars, ctxVars, envVars>>

\* the program calls start(cb)
CallStart(cb) ==
    /\ Len(starts) < MaxStarts
    /\ start(cb)
    /\ starts' = Append(starts, cb)
    /\ UNCHANGED <<clock, pairVars, callVars, ctxVars, envVars>>

\* the program calls stop()
CallStop ==
    /\ stop
    /\ starts' = <<>>
    /\ UNCHANGED <<clock, pairVars, callVars, ctxVars, envVars>>

\* invokeRequestFn passing the normalized options instead of the first argument
PassedArgsNormalized(call) ==
    Call(httpOptions(call.input, call.options).opts, call.options, call.callback)

\* the arguments invokeRequestFn passes on: the caller's objects as
\* httpOptions left them
PassedArgs(call) ==
    CHOOSE r \in
        {Call(IF n.target = "input" THEN n.opts ELSE call.input, call.options, call.callback) :
         n \in {httpOptions(call.input, call.options)}} : TRUE

\* the function installed by start() is called in place of http.request() or
\* https.request(): new HttpRequestMetrics()...getRequest()
GetRequest(call) ==
    /\ pc = "idle"
    /\ \E m \in Modules :
           /\ IsWrapped(httpRequest[m])
           /\ httpRequest[m].requestFn = OriginalRequest
           /\ metricsCallback' = withMetricsCallback(httpRequest[m].metricsCallback)
    /\ startsAtCall' = starts
    /\ pc' = "called"
    /\ called' = call
    /\ timings' = NewTimings
    /\ httpOpts' = httpOptions(call.input, call.options).opts
    /\ \E a \in {PassedArgs(call)} : \E req \in {NodeRequest(a.input, a.options, a.callback)} :
           /\ requestFnCalls' = Append(requestFnCalls, [args |-> a, result |-> req])
           /\ request' = req
           /\ returned' = req
           /\ IF ~ignoreRequest(req)
              THEN \* onRequest(request)
                   /\ requestBodySize' = Num(0)
                   /\ writeWrapped' = TRUE
                   /\ listeners' = RequestListeners
              ELSE UNCHANGED <<requestBodySize, writeWrapped, listeners>>
    /\ UNCHANGED <<clock, installVars, pairVars, response, serverRequestId, responseSize,
                   localAddress, remoteAddress, noResponseEndTimer, metricsTriggered,
                   pendingTimers, reports, envVars>>

\* the platform emits event e, once; tags are recorded with it
EmitTagged(e, tags) ==
    /\ pc = "called"
    /\ e \notin fired
    /\ fired' = fired \cup {e} \cup tags
    /\ UNCHANGED <<clock, installVars, pairVars, callVars, nTimeouts, nWrites, nChunks, streamed>>

Emit(e) == EmitTagged(e, {})

\* request 'socket': not on a request that has failed
EvSocket ==
    /\ "error" \notin fired
    /\ Emit("socket")
    /\ IF "socket" \in listeners THEN onSocket ELSE Unheard

\* socket 'lookup': before the connection is made
EvLookup ==
    /\ "socket" \in fired /\ "connect" \notin fired /\ "data" \notin fired
    /\ "error" \notin fired
    /\ Emit("lookup")
    /\ IF "lookup" \in listeners
       THEN OnlyTimings([timings EXCEPT !.dnsLookupAt = hrtime])
       ELSE Unheard

\* socket 'connect': not on a socket that already carries data
EvConnect ==
    /\ "socket" \in fired /\ "data" \notin fired
    /\ "error" \notin fired
    /\ EmitTagged("connect", IF "finish" \in fired THEN {"finish<connect"} ELSE {})
    /\ IF "connect" \in listeners THEN onConnect ELSE Unheard

\* socket 'secureConnect': after 'connect', before any data
EvSecureConnect ==
    /\ "connect" \in fired /\ "data" \notin fired
    /\ "error" \notin fired
    /\ Emit("secureConnect")
    /\ IF "secureConnect" \in listeners
       THEN OnlyTimings([timings EXCEPT !.tlsHandshakeAt = hrtime])
       ELSE Unheard

\* the first socket 'data'
EvSocketData ==
    /\ "socket" \in fired
    /\ "error" \notin fired
    /\ Emit("data")
    /\ IF "data" \in listeners THEN onFirstData ELSE Unheard

\* request 'finish': the caller ended the request and its last byte was flushed
EvFinish ==
    /\ Emit("finish")
    /\ IF "finish" \in listeners
       THEN OnlyTimings([timings EXCEPT !.sentRequestAt = hrtime])
       ELSE Unheard

\* the caller writes a chunk of the request body
EvWrite(len) ==
    /\ pc = "called"
    /\ "finish" \notin fired
    /\ nWrites < MaxWrites
    /\ nWrites' = nWrites + 1
    /\ IF writeWrapped THEN onWrite(len) ELSE Unheard
    /\ UNCHANGED <<clock, installVars, pairVars, callVars, fired, nTimeouts, nChunks, streamed>>

\* request 'response': the headers were parsed from the socket's data
EvResponse(res) ==
    /\ "data" \in fired
    /\ "error" \notin fired
    /\ Emit("response")
    /\ IF "response" \in listeners THEN onResponse(res) ELSE Unheard

\* response 'data'
EvResponseData(len) ==
    /\ pc = "called"
    /\ "response" \in fired /\ "end" \notin fired
    /\ nChunks < MaxChunks
    /\ nChunks' = nChunks + 1
    /\ streamed' = streamed + len
    /\ IF "responseData" \in listeners THEN onResponseData(len) ELSE Unheard
    /\ UNCHANGED <<clock, installVars, pairVars, callVars, fired, nTimeouts, nWrites>>

\* response 'end'
EvResponseEnd ==
    /\ "response" \in fired
    /\ Emit("end")
    /\ IF "end" \in listeners THEN onEnd("end", pendingTimers) ELSE Unheard

\* request 'error'
EvError(err) ==
    /\ Emit("error")
    /\ IF "error" \in listeners THEN onError(err) ELSE Unheard

\* request 'timeout': the socket was idle; the request goes on
EvTimeout ==
    /\ pc = "called"
    /\ "socket" \in fired
    /\ nTimeouts < MaxTimeouts
    /\ nTimeouts' = nTimeouts + 1
    /\ IF "timeout" \in listeners THEN onTimeout ELSE Unheard
    /\ UNCHANGED <<clock, installVars, pairVars, callVars, fired, nWrites, nChunks, streamed>>

\* the timer of startNoResponseEndTimer fires
TimerFire ==
    /\ \E tm \in pendingTimers :
           /\ tm.owner = self
           /\ onEnd("timer", pendingTimers \ {tm})
    /\ fired' = fired \cup {"timer"}
    /\ UNCHANGED <<clock, installVars, pairVars, callVars, nTimeouts, nWrites, nChunks, streamed>>

\* the events of the socket phase that may be emitted a second time
Repeatable == {"socket", "lookup", "connect", "secureConnect", "data"}

\* the mark left in fired by the second emission of e
Again(e) ==
    [socket |-> "socket again", lookup |-> "lookup again", connect |-> "connect again",
     secureConnect |-> "secureConnect again", data |-> "data again"][e]

\* the platform emits e a second time: the listeners registered for it with
\* prependListener run again, a used-up once-listener does not
EvAgain(e) ==
    /\ e \in fired
    /\ "error" \notin fired
    /\ EmitTagged(Again(e), {})
    /\ IF e \in listeners
       THEN CASE e = "socket" -> onSocket
              [] e = "lookup" -> OnlyTimings([timings EXCEPT !.dnsLookupAt = hrtime])
              [] e = "connect" -> onConnect
              [] e = "secureConnect" -> OnlyTimings([timings EXCEPT !.tlsHandshakeAt = hrtime])
              [] e = "data" -> onFirstData
       ELSE Unheard

\* the events of a request in flight that carry a time or end the request
Lifecycle ==
    \/ EvSocket
    \/ EvLookup
    \/ EvConnect
    \/ EvSecureConnect
    \/ EvSocketData
    \/ EvFinish
    \/ EvResponseEnd
    \/ EvTimeout
    \/ TimerFire

\* the request and response bodies
Bodies ==
    \/ \E len \in ChunkLengths : EvWrite(len)
    \/ \E len \in ChunkLengths : EvResponseData(len)

\* the callbacks the program passes to start()
MetricsCallbacks == {Fn("cb1"), Fn("cb2"), Undefined}

\* the program starts the instrumentation, once
StartOnce ==
    /\ starts = <<>>
    /\ CallStart(Fn("cb1"))

Next ==
    \/ StartOnce
    \/ Tick
    \/ \E call \in TimedCalls : GetRequest(call)
    \/ \E res \in TimedResponses : EvResponse(res)
    \/ \E err \in Errors : EvError(err)
    \/ Lifecycle

\* one request under a ticking clock
Spec == Init /\ [][Next]_vars

NextCall ==
    \/ StartOnce
    \/ \E call \in AllCalls : GetRequest(call)
    \/ \E res \in TimedResponses : EvResponse(res)
    \/ \E err \in Errors : EvError(err)
    \/ Lifecycle

\* every call shape, with the clock standing still
CallSpec == Init /\ [][NextCall]_vars

NextBody ==
    \/ StartOnce
    \/ \E call \in TimedCalls : GetRequest(call)
    \/ \E res \in AllResponses : EvResponse(res)
    \/ \E err \in Errors : EvError(err)
    \/ Lifecycle
    \/ Bodies

\* every response and error and the two bodies, with the clock standing still
BodySpec == Init /\ [][NextBody]_vars

\* a timer that was started fires unless it is cleared first
LiveSpec == Spec /\ WF_vars(TimerFire)

NextInstall ==
    \/ \E cb \in MetricsCallbacks : CallStart(cb)
    \/ CallStop
    \/ \E call \in TimedCalls : GetRequest(call)
    \/ EvSocket
    \/ EvTimeout
    \/ \E err \in Errors : EvError(err)

\* start() and stop() called in any order around one request
InstallSpec == Init /\ [][NextInstall]_vars

NextPair ==
    \/ StartOnce
    \/ Tick
    \/ \E call \in TimedCalls : GetRequest(call)
    \/ EvSocket
    \/ EvSocketData
    \/ \E res \in TimedResponses : EvResponse(res)
    \/ EvResponseEnd
    \/ \E err \in Errors : EvError(err)
    \/ TimerFire
    \/ Switch

\* two requests in flight, their events interleaved
PairSpec == Init /\ [][NextPair]_vars

\* the events up to the first byte of the response
SocketPhase ==
    \/ EvSocket
    \/ EvLookup
    \/ EvConnect
    \/ EvSecureConnect
    \/ EvSocketData
    \/ EvFinish

NextRepeat ==
    \/ StartOnce
    \/ Tick
    \/ \E call \in TimedCalls : GetRequest(call)
    \/ SocketPhase
    \/ \E e \in Repeatable : EvAgain(e)

\* the socket phase of one request, each of its events emitted up to twice
RepeatSpec == Init /\ [][NextRepeat]_vars

\* two process.hrtime() results, half a second apart across a full second
TimeStamps == {Hr(<<0, 500 * MS_PER_NS>>), Hr(<<1, 0>>)}

\* this.timings with every combination of set and unset slots; startAt is set
AllTimings ==
    {[startAt |-> s, socketAt |-> k, dnsLookupAt |-> d, tcpConnectionAt |-> c,
      tlsHandshakeAt |-> h, sentRequestAt |-> r, firstByteAt |-> b, endAt |-> e,
      errorAt |-> x] :
        s \in TimeStamps,
        k \in TimeStamps \cup {Undefined}, d \in TimeStamps \cup {Undefined},
        c \in TimeStamps \cup {Undefined}, h \in TimeStamps \cup {Undefined},
        r \in TimeStamps \cup {Undefined}, b \in TimeStamps \cup {Undefined},
        e \in TimeStamps \cup {Undefined}, x \in TimeStamps \cup {Undefined}}

InitTimings ==
    /\ self = 1
    /\ other = NoContext(2)
    /\ httpRequest = [m \in Modules |-> OriginalRequest]
    /\ starts = <<>>
    /\ startsAtCall = <<>>
    /\ metricsCallback = Undefined
    /\ clock = 0
    /\ pc = "idle"
    /\ called = Undefined
    /\ requestFnCalls = <<>>
    /\ returned = Undefined
    /\ httpOpts = Undefined
    /\ request = Undefined
    /\ timings \in AllTimings
    /\ requestBodySize = Undefined
    /\ response = Undefined
    /\ serverRequestId = Undefined
    /\ responseSize = Undefined
    /\ localAddress = Undefined
    /\ remoteAddress = Undefined
    /\ noResponseEndTimer = Undefined
    /\ metricsTriggered = FALSE
    /\ listeners = {}
    /\ writeWrapped = FALSE
    /\ pendingTimers = {}
    /\ fired = {}
    /\ nTimeouts = 0
    /\ nWrites = 0
    /\ nChunks = 0
    /\ streamed = 0
    /\ reports = <<>>

\* getTimingMetrics() applied to this.timings; the result is kept in reports
GetTimingMetrics ==
    /\ reports = <<>>
    /\ reports' = <<[by |-> "getTimingMetrics", metrics |-> getTimingMetrics(timings)]>>
    /\ UNCHANGED <<clock, installVars, pairVars, callVars, envVars, httpOpts, request, timings,
                   requestBodySize,
                   response, serverRequestId, responseSize, localAddress, remoteAddress,
                   noResponseEndTimer, metricsTriggered, listeners, writeWrapped,
                   pendingTimers>>

NextTimings == GetTimingMetrics

\* getTimingMetrics as a function of the timing slots
TimingSpec == InitTimings /\ [][NextTimings]_vars

(***************************************************************************)
(* Properties.                                                             *)
(***************************************************************************)
\* the context observes its request: getRequest ran and did not ignore it
Observed == pc = "called" /\ ~ignoreRequest(request)

\* a terminal signal was delivered: response 'end', request 'error', request
\* 'timeout', or the firing of the timer
TerminalSignal ==
    \/ "end" \in fired
    \/ "error" \in fired
    \/ nTimeouts > 0
    \/ "timer" \in fired

\* C1: for an observed request and any sequence of terminal signals, the metrics
\* callback is never invoked more than once, and is invoked exactly once as
\* soon as one terminal signal was delivered.
C1_ExactlyOnce ==
    /\ Len(reports) <= 1
    /\ (Observed /\ TerminalSignal) => Len(reports) = 1

\* C1 witness: 'timeout', 'error' and 'end' were all delivered, and one report made
C1_Witness ==
    /\ Observed
    /\ nTimeouts > 1
    /\ "error" \in fired
    /\ "end" \in fired
    /\ Len(reports) = 1

\* C2: once 'response' was delivered to an observed request, the metrics
\* callback is eventually invoked, whether or not 'end', 'error' or 'timeout'
\* ever arrive, given that a started timer fires unless cleared.
C2_EventuallyReported ==
    (Observed /\ "response" \in fired) ~> (Len(reports) >= 1)

\* C2 witness: the report was made by the timer, with no 'end', 'error' or 'timeout'
C2_Witness ==
    /\ Observed
    /\ "response" \in fired
    /\ "end" \notin fired /\ "error" \notin fired /\ nTimeouts = 0
    /\ Len(reports) = 1
    /\ reports[1].by = "timer"

\* C3: when the socket connected, its first byte was seen and 'response' was
\* delivered but response 'end' never is, the report the timer makes is the only
\* one and its durationReceive is undefined.
C3_TimerReportHasNoReceive ==
    (/\ Observed
     /\ {"connect", "data", "response"} \subseteq fired
     /\ "end" \notin fired
     /\ Len(reports) >= 1
     /\ reports[1].by = "timer")
    => /\ Len(reports) = 1
       /\ reports[1].metrics.durationReceive = Undefined

SubDurations ==
    {"durationBlocked", "durationDNS", "durationConnect", "durationSSL",
     "durationSend", "durationWait", "durationReceive"}

\* C4: under the monotonic clock, every sub-duration of a delivered report is
\* undefined or a non-negative number, in whatever order the events came.
C4_NoNegativeDuration ==
    \A i \in 1..Len(reports) : \A d \in SubDurations :
        LET x == reports[i].metrics[d]
        IN  x = Undefined \/ (x.t = "number" /\ x.v >= 0)

\* C5: when socket 'connect' is delivered after request 'finish' recorded
\* sentRequestAt, that slot is cleared and the durationSend of the report is
\* undefined.
C5_ConnectAfterFinishClearsSend ==
    (Observed /\ "finish<connect" \in fired)
    => /\ timings.sentRequestAt = Undefined
       /\ \A i \in 1..Len(reports) : reports[i].metrics.durationSend = Undefined

\* C5 witness: 'finish', then 'connect', then a report that has the connect time
C5_Witness ==
    /\ Observed
    /\ "finish<connect" \in fired
    /\ Len(reports) = 1
    /\ reports[1].metrics.durationConnect # Undefined

\* a header value that is a non-negative integer in decimal digits
IsDecimal(s) == s # <<>> /\ \A i \in 1..Len(s) : IsDigit(s[i])

\* C6: for a request reported by response 'end', responseBodySize is the N of a
\* content-length header holding the non-negative integer N, whatever was
\* streamed, and is the total length of the chunks streamed when the response
\* has no content-length header.
C6_ResponseBodySize ==
    \A i \in 1..Len(reports) :
        reports[i].by = "end" =>
            LET header == Get(response.v.headers, "content-length")
                size == reports[i].metrics.responseBodySize
            IN  /\ (header # Undefined /\ IsDecimal(header.v))
                   => size = Num(DigitsToNat(header.v))
                /\ header = Undefined => size = Num(streamed)

\* C6 witness: content-length 3, four bytes streamed, reported by 'end'
C6_Witness ==
    /\ Len(reports) = 1
    /\ reports[1].by = "end"
    /\ Get(response.v.headers, "content-length") = Str(<<"3">>)
    /\ streamed = 4

\* C7: a request whose User-Agent header is USER_AGENT gets no listener, no
\* write wrapper and no timer, never has metrics reported, and its handle is
\* returned to the caller.
C7_SelfExcluded ==
    (pc = "called" /\ request.userAgent = USER_AGENT)
    => /\ listeners = {}
       /\ ~writeWrapped
       /\ noResponseEndTimer = Undefined
       /\ pendingTimers = {}
       /\ reports = <<>>
       /\ returned = requestFnCalls[1].result

\* C7 witness: the excluded request went through its events, terminal ones included
C7_Witness ==
    /\ pc = "called"
    /\ request.userAgent = USER_AGENT
    /\ {"socket", "connect", "data", "finish", "response", "end", "error"} \subseteq fired
    /\ nTimeouts > 0

\* C8: each call of the instrumented request() calls the original request() once,
\* with the three arguments it was given, unchanged by the normalization, and
\* returns the handle the original returned; for all call shapes, ignored or not.
C8_OriginalCalledOnceUnchanged ==
    /\ pc = "idle" => requestFnCalls = <<>>
    /\ pc = "called" => /\ Len(requestFnCalls) = 1
                        /\ requestFnCalls[1].args = called
                        /\ returned = requestFnCalls[1].result

\* C8 witness: an options record as first argument, on a self-excluded request
C8_Witness ==
    /\ pc = "called"
    /\ called.input.t = "object"
    /\ ignoreRequest(request)
    /\ Len(requestFnCalls) = 1

\* milliseconds of a process.hrtime() value
HrMs(h) == h.v[1] * 1000 + h.v[2] \div MS_PER_NS

\* C9: a report made because request 'error' or 'timeout' was the first terminal
\* signal has error true, the error's message and code ("Connection timed out"
\* and 110 for 'timeout'), a duration measured from the start to the time of
\* the signal, and an undefined durationReceive.
C9_ErrorReport ==
    [][(Len(reports') > Len(reports) /\ reports'[Len(reports')].by \in {"error", "timeout"})
       => LET by == reports'[Len(reports')].by
              m == reports'[Len(reports')].metrics
          IN  /\ Get(m, "error") = Bool(TRUE)
              /\ by = "timeout" => /\ Get(m, "errorMessage") = Str(<<"Connection timed out">>)
                                   /\ Get(m, "errorCode") = Num(110)
              /\ by = "error" => \E e \in Errors : /\ Get(m, "errorMessage") = e.message
                                                   /\ Get(m, "errorCode") = e.code
              /\ m.duration = Num(clock * TickMs - HrMs(timings.startAt))
              /\ m.durationReceive = Undefined]_vars

\* C9 witness: 'timeout' made the report after the response headers had come
C9_Witness ==
    /\ Len(reports) = 1
    /\ reports[1].by = "timeout"
    /\ "responseCode" \in DOMAIN reports[1].metrics
    /\ reports[1].metrics.durationWait # Undefined
    /\ reports[1].metrics.duration.v > 0

\* C10: for a URL string as target, the url of the report gives back the scheme,
\* host, port and path of the input, the port left out exactly when it is the
\* default of the scheme.
C10_UrlRoundTrip ==
    \A i \in 1..Len(reports) :
        called.input.t = "string" =>
            LET given == ParseURL(called.input.v)
                url == reports[i].metrics.url.v
                back == ParseURL(url)
            IN  /\ back.ok
                /\ back.protocol = given.protocol
                /\ back.hostname = given.hostname
                /\ back.port = given.port
                /\ back.pathname \o back.search = given.pathname \o given.search
                /\ url = given.href

\* C11: whenever the normalized options carry no port, the port of the report is
\* the default port of the reported protocol (443 for "https:", 80 for "http:")
\* and the url of the report has no port suffix, for every call shape.
C11_DefaultPortOfProtocol ==
    \A i \in 1..Len(reports) :
        (Get(httpOpts.v, "port") = Undefined /\ Get(httpOpts.v, "defaultPort") = Undefined)
        => LET m == reports[i].metrics
           IN  /\ m.protocol \in {Str(HTTP), Str(HTTPS)}
               /\ m.port = Num(DefaultPort(m.protocol.v))
               /\ m.url = Str(m.protocol.v \o <<"/", "/">> \o m.host.v \o m.path.v)

\* C14: in every reachable state at most one of the terminal timestamps endAt and
\* errorAt is set, for any sequence of 'end', 'error', 'timeout' and timer
\* events, those arriving after the report included.
C14_OneTerminalTimestamp ==
    ~(Truthy(timings.endAt) /\ Truthy(timings.errorAt))

\* C15: once metricsTriggered is true, no later event changes a field of the
\* context: the timestamps, byte counters, addresses, correlation id and timer
\* handle stay as they are.
C15_FrozenAfterReport ==
    [][metricsTriggered
       => UNCHANGED <<timings, requestBodySize, responseSize, localAddress,
                      remoteAddress, serverRequestId, noResponseEndTimer>>]_vars

\* C17: at every invocation of the metrics callback, whichever terminal path
\* made it, the timer of the context is not pending.
C17_TimerClearedAtCallback ==
    [][Len(reports') > Len(reports)
       => (Truthy(noResponseEndTimer) => noResponseEndTimer.v \notin pendingTimers')]_vars

\* C17 witness: the timer was started and request 'error' made the report
C17_Witness ==
    /\ Truthy(noResponseEndTimer)
    /\ Len(reports) = 1
    /\ reports[1].by = "error"
    /\ noResponseEndTimer.v \notin pendingTimers

\* C18: a context has at most one timer, and in every state where the report
\* was delivered no timer of the context is pending, also when 'response'
\* arrives after 'timeout' made the report.
C18_NoTimerAfterReport ==
    /\ Cardinality(pendingTimers) <= 1
    /\ metricsTriggered => pendingTimers = {}

\* C20: when the content-length header is not a non-negative integer, the byte
\* counter is not seeded from it: the responseBodySize reported at 'end' is the
\* total length of the chunks streamed, and is never negative.
C20_MalformedContentLength ==
    \A i \in 1..Len(reports) :
        reports[i].by = "end" =>
            LET header == Get(response.v.headers, "content-length")
                size == reports[i].metrics.responseBodySize
            IN  /\ size.t = "number" /\ size.v >= 0
                /\ (header # Undefined /\ ~IsDecimal(header.v)) => size = Num(streamed)

\* the time from a to b in milliseconds, unknown when either is unset
Elapsed(a, b) ==
    IF a = Undefined \/ b = Undefined THEN Undefined ELSE Num(HrMs(b) - HrMs(a))

\* the first slot of a sequence that is set, unset when none is
RECURSIVE FirstSet(_)
FirstSet(slots) ==
    IF slots = <<>> THEN Undefined
    ELSE IF Head(slots) # Undefined THEN Head(slots)
    ELSE FirstSet(Tail(slots))

\* the pair of timestamps behind each duration
DurationTable(t) ==
    [duration |-> <<t.startAt, FirstSet(<<t.errorAt, t.endAt>>)>>,
     durationBlocked |-> <<t.startAt, t.socketAt>>,
     durationDNS |-> <<t.socketAt, t.dnsLookupAt>>,
     durationConnect |-> <<FirstSet(<<t.dnsLookupAt, t.socketAt>>), t.tcpConnectionAt>>,
     durationSSL |-> <<t.tcpConnectionAt, t.tlsHandshakeAt>>,
     durationSend |-> <<FirstSet(<<t.tlsHandshakeAt, t.tcpConnectionAt>>), t.sentRequestAt>>,
     durationWait |-> <<FirstSet(<<t.sentRequestAt, t.tlsHandshakeAt, t.tcpConnectionAt>>),
                        t.firstByteAt>>,
     durationReceive |-> <<t.firstByteAt, t.endAt>>]

\* C19: for every combination of set and unset timing slots, each duration
\* getTimingMetrics gives is the end minus the start of its pair in the table,
\* and is undefined exactly when an endpoint of the pair is unset.
C19_DurationTable ==
    \A i \in 1..Len(reports) :
        reports[i].by = "getTimingMetrics" =>
            LET m == reports[i].metrics
                table == DurationTable(timings)
            IN  /\ DOMAIN m = DOMAIN table
                /\ \A d \in DOMAIN table :
                       /\ m[d] = Elapsed(table[d][1], table[d][2])
                       /\ m[d] = Undefined
                          <=> (table[d][1] = Undefined \/ table[d][2] = Undefined)

\* C19 witness: no request-sent time, so the wait is measured from the TLS
\* handshake, across a second boundary
C19_Witness ==
    /\ Len(reports) = 1
    /\ reports[1].by = "getTimingMetrics"
    /\ timings.sentRequestAt = Undefined
    /\ timings.tlsHandshakeAt = Hr(<<0, 500 * MS_PER_NS>>)
    /\ timings.firstByteAt = Hr(<<1, 0>>)
    /\ reports[1].metrics.durationWait = Num(500)
    /\ reports[1].metrics.durationSend = Undefined

\* the timing slots of the socket phase
SocketPhaseSlots ==
    {"socketAt", "dnsLookupAt", "tcpConnectionAt", "tlsHandshakeAt", "firstByteAt"}

\* C16: each slot of the socket phase and the local and remote address keep the
\* value recorded the first time their event fires: a second 'socket',
\* 'lookup', 'connect' or 'secureConnect' leaves a field that is set unchanged.
C16_FirstFiringWins ==
    [][/\ \A slot \in SocketPhaseSlots :
              timings[slot] # Undefined => timings'[slot] = timings[slot]
       /\ localAddress # Undefined => localAddress' = localAddress
       /\ remoteAddress # Undefined => remoteAddress' = remoteAddress]_vars

\* C12: after start(cb1) and then start(cb2) with no stop() in between, the
\* instrumentation is installed once: a request made from then on reports to
\* cb1 only, never to cb2, and calls the original request function once.
C12_SecondStartIsNoOp ==
    (pc = "called" /\ Len(startsAtCall) >= 2)
    => /\ Len(requestFnCalls) = 1
       /\ Len(reports) <= 1
       /\ \A i \in 1..Len(reports) :
              /\ reports[i].to = IF startsAtCall[1] = Undefined THEN Noop
                                 ELSE startsAtCall[1]
              /\ startsAtCall[2] # startsAtCall[1] => reports[i].to # startsAtCall[2]

\* C12 witness: start(cb1), start(cb2), then a request that was reported
C12_Witness ==
    /\ pc = "called"
    /\ startsAtCall = <<Fn("cb1"), Fn("cb2")>>
    /\ Len(reports) = 1
    /\ reports[1].to = Fn("cb1")
    /\ Len(requestFnCalls) = 1

\* C13: with the events of two request contexts interleaved, an event delivered
\* to one context changes no field, timer or latch of the other, and the report
\* of each context is delivered once, to its own callback, with the duration
\* measured from its own start; turning to the other context changes nothing.
C13_ContextsIndependent ==
    [][IF self' = self
       THEN /\ other' = other
            /\ \A tm \in pendingTimers : tm.owner # self => tm \in pendingTimers'
            /\ \A tm \in pendingTimers' : tm.owner # self => tm \in pendingTimers
            /\ Len(reports') <= 1
            /\ Len(reports') > Len(reports)
               => /\ reports'[1].to = metricsCallback
                  /\ reports'[1].metrics.duration
                         = Num(clock * TickMs - HrMs(timings.startAt))
       ELSE /\ other' = ThisContext
            /\ ThisContext' = other
            /\ pendingTimers' = pendingTimers]_vars

\* C13 witness: both contexts were reported, one by response 'end' and the other
\* later by its timer
C13_Witness ==
    /\ Len(reports) = 1
    /\ Len(other.reports) = 1
    /\ reports[1].by = "end"
    /\ other.reports[1].by = "timer"
    /\ reports[1].metrics.duration # other.reports[1].metrics.duration
    /\ timings.startAt # other.timings.startAt

============================================================================
